---- MODULE Spec2Model ----
(***************************************************************************)
(* A model of bwtui's src/api.rs: the authentication and synchronisation   *)
(* pipeline (perform_prelogin, perform_token_auth, authenticate, sync) and *)
(* the local cache (get_app_data_path, save_data_to, read_data_from,       *)
(* read_app_data, save_app_data).                                          *)
(*                                                                         *)
(* Conventions.                                                            *)
(*  - Option<T>: None is <<>>, Some(v) is <<v>>.  A JSON key of an Option  *)
(*    type holds <<>> for null and <<v>> for a value; an absent key is a   *)
(*    key outside the DOMAIN of the document.                              *)
(*  - A JSON document is a function from keys to values.  serde's derived  *)
(*    Deserialize accepts a field under its Rust name or under its alias,  *)
(*    rejects a document holding both, ignores unknown keys and fills a    *)
(*    #[serde(skip)] field with Default::default().  The derived Serialize *)
(*    writes every non-skipped field under its Rust name.                  *)
(*  - The structs are modelled with one field of each serde shape that     *)
(*    api.rs uses (required+alias, Option+alias, nested struct, Vec of     *)
(*    structs, skip); the remaining fields repeat these shapes.            *)
(*  - The text of a document on disk is a sequence of chunks, one chunk    *)
(*    being what one write(2) of the BufWriter carries.                    *)
(***************************************************************************)
EXTENDS Integers, Sequences, FiniteSets, TLC

(* ----------------------------- bounds -------------------------------- *)

\* The number of device identifiers Uuid::new_v4 hands out in one run.
MaxDeviceIds == 2

(* --------------------------- constants ------------------------------- *)

AUTH_URL == "https://identity.bitwarden.com/connect/token"
BASE_URL == "https://api.bitwarden.com"
PreloginUrl == BASE_URL \o "/accounts/prelogin"
SyncUrl == BASE_URL \o "/sync"

AUTH_FILE == "auth.json"
VAULT_FILE == "vault.json"
FileNames == {AUTH_FILE, VAULT_FILE}

Procs == {1, 2}

None == <<>>
Some(v) == <<v>>

(* ------------------------- input domains ----------------------------- *)

Emails == {"ann@x"}
Passwords == {"hunter2"}
KdfIterationCounts == {1, 2}
AccessTokens == {"tokA", "tok\nB"}
TokenTypes == {"Bearer"}
\* Strings holding a byte that http::HeaderValue::from_str rejects.
HeaderUnsafe == {"tok\nB"}
\* The statuses a server answers with: is_success() holds of the first only.
Statuses == {200, 304, 400}

(* --------------------- the Cipher Suite (crate::cipher) -------------- *)

\* CipherSuite::from(email, password, kdf_iterations): the derived state.
CipherSuite_from(email, password, kdf_iterations) ==
    [master_key |-> "mk(" \o email \o "," \o password \o "," \o ToString(kdf_iterations) \o ")",
     master_key_hash |-> "mkh(" \o email \o "," \o password \o "," \o ToString(kdf_iterations) \o ")"]

\* CipherSuite::default(): what #[serde(skip)] fills in.
CipherSuite_default == [master_key |-> "", master_key_hash |-> ""]

(* ------------------------ serde: field access ------------------------ *)

\* A field looked up under its Rust name only.
Has_NoAlias(doc, name, alias) == name \in DOMAIN doc

\* A field is present under its Rust name or under its alias.
Has(doc, name, alias) == name \in DOMAIN doc \/ alias \in DOMAIN doc
Dup(doc, name, alias) == name # alias /\ name \in DOMAIN doc /\ alias \in DOMAIN doc
Get(doc, name, alias) == IF name \in DOMAIN doc THEN doc[name] ELSE doc[alias]
\* A required field: present, once.
Req(doc, name, alias) == Has(doc, name, alias) /\ ~Dup(doc, name, alias)
\* An Option field: absent and null both read as None.
Opt(doc, name, alias) == IF Has(doc, name, alias) THEN Get(doc, name, alias) ELSE None

(* ------------------------ serde: the structs ------------------------- *)

\* Option<Result>: <<>> is a deserialisation error, <<v>> the value.

PreloginResponseData_de(doc) ==
    IF Req(doc, "kdf", "Kdf") /\ Req(doc, "kdf_iterations", "KdfIterations")
    THEN Some([kdf |-> Get(doc, "kdf", "Kdf"),
               kdf_iterations |-> Get(doc, "kdf_iterations", "KdfIterations")])
    ELSE None

LoginResponseData_de(doc) ==
    IF /\ Req(doc, "access_token", "access_token")
       /\ Req(doc, "expires_in", "expires_in")
       /\ Req(doc, "token_type", "token_type")
    THEN Some([access_token |-> doc["access_token"],
               expires_in |-> doc["expires_in"],
               token_type |-> doc["token_type"]])
    ELSE None

AuthData_ser_WithCipher(auth) ==
    [access_token |-> auth.access_token,
     expires_in |-> auth.expires_in,
     token_type |-> auth.token_type,
     kdf |-> auth.kdf,
     kdf_iterations |-> auth.kdf_iterations,
     cipher |-> auth.cipher]

\* #[derive(Serialize)] of AuthData: cipher is #[serde(skip)].
AuthData_ser(auth) ==
    [access_token |-> auth.access_token,
     expires_in |-> auth.expires_in,
     token_type |-> auth.token_type,
     kdf |-> auth.kdf,
     kdf_iterations |-> auth.kdf_iterations]

\* #[derive(Deserialize)] of AuthData: cipher is Default::default().
AuthData_de(doc) ==
    IF /\ Req(doc, "access_token", "access_token")
       /\ Req(doc, "expires_in", "expires_in")
       /\ Req(doc, "token_type", "token_type")
       /\ Req(doc, "kdf", "kdf")
       /\ Req(doc, "kdf_iterations", "kdf_iterations")
    THEN Some([access_token |-> doc["access_token"],
               expires_in |-> doc["expires_in"],
               token_type |-> doc["token_type"],
               kdf |-> doc["kdf"],
               kdf_iterations |-> doc["kdf_iterations"],
               cipher |-> CipherSuite_default])
    ELSE None

Profile_ok(doc) ==
    /\ Req(doc, "uuid", "Id")
    /\ Req(doc, "name", "Name")
    /\ ~Dup(doc, "master_password_hint", "MasterPasswordHint")

Profile_de(doc) ==
    [uuid |-> Get(doc, "uuid", "Id"),
     name |-> Get(doc, "name", "Name"),
     master_password_hint |-> Opt(doc, "master_password_hint", "MasterPasswordHint")]

Profile_ser(p) ==
    [uuid |-> p.uuid, name |-> p.name, master_password_hint |-> p.master_password_hint]

CipherEntryUriMatch_ok(doc) ==
    Req(doc, "uri", "Uri") /\ ~Dup(doc, "match_", "Match")

CipherEntryUriMatch_de(doc) ==
    [uri |-> Get(doc, "uri", "Uri"), match_ |-> Opt(doc, "match_", "Match")]

CipherEntryUriMatch_ser(m) == [uri |-> m.uri, match_ |-> m.match_]

CipherEntryData_ok(doc) ==
    /\ ~Dup(doc, "uri", "Uri")
    /\ ~Dup(doc, "uris", "Uris")
    /\ Req(doc, "username", "Username")
    /\ LET uris == Opt(doc, "uris", "Uris")
       IN  uris # None =>
             \A k \in 1..Len(uris[1]) : CipherEntryUriMatch_ok(uris[1][k])

CipherEntryData_de(doc) ==
    [uri |-> Opt(doc, "uri", "Uri"),
     uris |-> LET uris == Opt(doc, "uris", "Uris")
              IN  IF uris = None THEN None
                  ELSE Some([k \in 1..Len(uris[1]) |-> CipherEntryUriMatch_de(uris[1][k])]),
     username |-> Get(doc, "username", "Username")]

\* A Serialize that writes the singular uri as a one-element uris list.
CipherEntryData_ser_Normalised(d) ==
    [uri |-> None,
     uris |-> IF d.uri # None THEN Some(<<[uri |-> d.uri[1], match_ |-> None]>>)
              ELSE IF d.uris = None THEN None
              ELSE Some([k \in 1..Len(d.uris[1]) |-> CipherEntryUriMatch_ser(d.uris[1][k])]),
     username |-> d.username]

CipherEntryData_ser(d) ==
    [uri |-> d.uri,
     uris |-> IF d.uris = None THEN None
              ELSE Some([k \in 1..Len(d.uris[1]) |-> CipherEntryUriMatch_ser(d.uris[1][k])]),
     username |-> d.username]

CipherEntry_ok(doc) ==
    /\ Req(doc, "uuid", "Id")
    /\ Req(doc, "name", "Name")
    /\ Req(doc, "data", "Data")
    /\ CipherEntryData_ok(Get(doc, "data", "Data"))

\* login is #[serde(alias = "Login", skip)]: never read, never written.
CipherEntry_de(doc) ==
    [uuid |-> Get(doc, "uuid", "Id"),
     name |-> Get(doc, "name", "Name"),
     data |-> CipherEntryData_de(Get(doc, "data", "Data")),
     login |-> None]

CipherEntry_ser(e) ==
    [uuid |-> e.uuid, name |-> e.name, data |-> CipherEntryData_ser(e.data)]

VaultData_ok(doc) ==
    /\ Req(doc, "object", "Object")
    /\ Req(doc, "profile", "Profile")
    /\ Profile_ok(Get(doc, "profile", "Profile"))
    /\ Req(doc, "ciphers", "Ciphers")
    /\ LET cs == Get(doc, "ciphers", "Ciphers")
       IN  \A k \in 1..Len(cs) : CipherEntry_ok(cs[k])

\* domains is #[serde(alias = "Domains", skip)].
VaultData_de(doc) ==
    IF VaultData_ok(doc)
    THEN Some([object |-> Get(doc, "object", "Object"),
               profile |-> Profile_de(Get(doc, "profile", "Profile")),
               ciphers |-> LET cs == Get(doc, "ciphers", "Ciphers")
                           IN  [k \in 1..Len(cs) |-> CipherEntry_de(cs[k])],
               domains |-> None])
    ELSE None

VaultData_ser(v) ==
    [object |-> v.object,
     profile |-> Profile_ser(v.profile),
     ciphers |-> [k \in 1..Len(v.ciphers) |-> CipherEntry_ser(v.ciphers[k])]]

(* ---------------------- serde_json: text on disk --------------------- *)

\* The number of write(2) calls the BufWriter needs for a document: the
\* Session fits its buffer, a vault grows with its entries.
Size(doc) == 1 + (IF "ciphers" \in DOMAIN doc THEN Len(doc["ciphers"]) ELSE 0)

\* serde_json::to_writer: the text of a document, chunk by chunk.
ToText(doc) == [k \in 1..Size(doc) |-> [doc |-> doc, k |-> k]]

\* What a hole of a sparse file reads as.
Hole == [doc |-> [hole |-> TRUE], k |-> 0]

\* serde_json::from_reader: the document of a text; an empty, cut or
\* overlaid text, or one with trailing characters, is a syntax error.
FromText(text) ==
    IF text # <<>> /\ text[1].k = 1 /\ text = ToText(text[1].doc)
    THEN Some(text[1].doc)
    ELSE None

\* write(2) of one chunk at chunk offset pos (1-based) of a file.
WriteAt(text, pos, chunk) ==
    [k \in 1..(IF pos > Len(text) THEN pos ELSE Len(text)) |->
        IF k = pos THEN chunk
        ELSE IF k <= Len(text) THEN text[k]
        ELSE Hole]

IsPrefix(s, t) == Len(s) <= Len(t) /\ \A k \in 1..Len(s) : s[k] = t[k]

(* ----------------------- what the servers answer --------------------- *)

\* An HTTP exchange ends in a transport error or in a response with a
\* status and a body: json is None for a body that is not JSON.
TransportError == [kind |-> "transport_error"]
Http(status, json) == [kind |-> "http", status |-> status, json |-> json]

\* The answers of a server: a transport error, or a status with a body.  A
\* status that is no success comes with a body of the expected shape or
\* with one that is not JSON.
Responses(bodies, good) ==
    {TransportError}
      \cup { Http(200, b) : b \in bodies }
      \cup { Http(s, b) : s \in Statuses \ {200}, b \in {good, None} }

PreloginBodies ==
    { Some([Kdf |-> 0, KdfIterations |-> n]) : n \in KdfIterationCounts }
      \cup { Some([kdf |-> 0, kdf_iterations |-> 1]), Some([Kdf |-> 0]), None }

PreloginResponses == Responses(PreloginBodies, Some([Kdf |-> 0, KdfIterations |-> 1]))

TokenBodies ==
    { Some([access_token |-> t, expires_in |-> 3600, token_type |-> ty]) :
        t \in AccessTokens, ty \in TokenTypes }
      \cup { Some([error |-> "invalid_grant"]), None }

TokenResponses ==
    Responses(TokenBodies,
              Some([access_token |-> "tokA", expires_in |-> 3600, token_type |-> "Bearer"]))

\* One vault entry as the service sends it (capitalised keys, with the
\* Login sub-record) in its two URI forms.
ServerEntry(form) ==
    [Id |-> "c1", Name |-> "2.name", Login |-> Some([Username |-> "2.user"]),
     Data |-> IF form = "uri"
              THEN [Uri |-> Some("2.uri"), Username |-> "2.user"]
              ELSE [Uris |-> Some(<<[Uri |-> "2.uri", Match |-> None]>>),
                    Username |-> "2.user"]]

ServerVault(ciphers) ==
    [Object |-> "sync",
     Profile |-> [Id |-> "p1", Name |-> "Ann", MasterPasswordHint |-> None],
     Ciphers |-> ciphers,
     Domains |-> Some([x \in {} |-> 0])]

\* The key each modelled field goes by: under the name the struct declares
\* (the one Serialize writes), under its #[serde(alias)] (the one the service
\* sends), and under the lowercased alias where that is another key.
FieldNames ==
    [object |-> "object", profile |-> "profile", ciphers |-> "ciphers",
     domains |-> "domains", uuid |-> "uuid", name |-> "name",
     master_password_hint |-> "master_password_hint", data |-> "data",
     login |-> "login", uri |-> "uri", uris |-> "uris",
     username |-> "username", match_ |-> "match_"]

AliasNames ==
    [object |-> "Object", profile |-> "Profile", ciphers |-> "Ciphers",
     domains |-> "Domains", uuid |-> "Id", name |-> "Name",
     master_password_hint |-> "MasterPasswordHint", data |-> "Data",
     login |-> "Login", uri |-> "Uri", uris |-> "Uris",
     username |-> "Username", match_ |-> "Match"]

LowercaseNames == [FieldNames EXCEPT !.uuid = "id"]

\* The vault of ServerVault, its entries in the given URI forms, with its
\* keys spelled as n spells them.
EntryBody(n, form) ==
    (n.uuid :> "c1") @@ (n.name :> "2.name")
      @@ (n.login :> Some((n.username :> "2.user")))
      @@ (n.data :>
            (IF form = "uri"
             THEN (n.uri :> Some("2.uri")) @@ (n.username :> "2.user")
             ELSE (n.uris :> Some(<<(n.uri :> "2.uri") @@ (n.match_ :> None)>>))
                    @@ (n.username :> "2.user")))

VaultBody(n, forms) ==
    (n.object :> "sync")
      @@ (n.profile :>
            ((n.uuid :> "p1") @@ (n.name :> "Ann") @@ (n.master_password_hint :> None)))
      @@ (n.ciphers :> [k \in 1..Len(forms) |-> EntryBody(n, forms[k])])
      @@ (n.domains :> Some([x \in {} |-> 0]))

SyncBodies ==
    { Some(ServerVault(<<>>)),
      Some(ServerVault(<<ServerEntry("uri")>>)),
      Some(ServerVault(<<ServerEntry("uris")>>)),
      Some(VaultBody(FieldNames, <<"uris">>)),
      Some(VaultBody(LowercaseNames, <<"uris">>)),
      Some([Object |-> "sync", Ciphers |-> <<>>]),
      None }

SyncResponses == Responses(SyncBodies, Some(ServerVault(<<>>)))

(* ----------------------------- results ------------------------------ *)

Ok(v) == [kind |-> "Ok", val |-> v]
PreloginFailed(error) == [kind |-> "PreloginFailed", error |-> error]
LoginFailed(error) == [kind |-> "LoginFailed", error |-> error]
RequestFailed(endpoint, error) ==
    [kind |-> "RequestFailed", endpoint |-> endpoint, error |-> error]
VaultDataWriteFailed(error) == [kind |-> "VaultDataWriteFailed", error |-> error]
\* A read error built as the write error is.
VaultDataReadFailed_AsWrite(error) == [kind |-> "VaultDataWriteFailed", error |-> error]

VaultDataReadFailed(error) == [kind |-> "VaultDataReadFailed", error |-> error]
\* The process aborted: an unwrap() of an Err.
Panicked == [kind |-> "panic"]
\* No call has returned yet.
Pending == [kind |-> "pending"]

IsOk(r) == r.kind = "Ok"

\* Success read as "no server error".
IsSuccess_NoServerError(status) == status < 500

\* reqwest::StatusCode::is_success
IsSuccess(status) == status >= 200 /\ status <= 299

(* ----------------------- the network operations ---------------------- *)

\* Each returns the requests it sent, with the answer each got, and its
\* result.
Exchange(req, resp) == [req |-> req, resp |-> resp]

PreloginRequest(email) ==
    [method |-> "POST", url |-> PreloginUrl, body |-> [email |-> email]]

perform_prelogin(email, resp) ==
    [sent |-> <<Exchange(PreloginRequest(email), resp)>>,
     result |->
        IF resp.kind = "transport_error" THEN PreloginFailed("transport")
        ELSE IF IsSuccess(resp.status)
        THEN IF resp.json # None /\ PreloginResponseData_de(resp.json[1]) # None
             THEN Ok(PreloginResponseData_de(resp.json[1])[1])
             ELSE PreloginFailed("body")
        ELSE PreloginFailed("status")]

TokenRequest(email, device_id, password) ==
    [method |-> "POST", url |-> AUTH_URL,
     body |-> [grant_type |-> "password",
               username |-> email,
               scope |-> "api offline_access",
               client_id |-> "connector",
               deviceType |-> "3",
               deviceIdentifier |-> device_id,
               deviceName |-> "bwtui",
               password |-> password]]

\* perform_token_auth sending the master key in place of its hash.
perform_token_auth_MasterKey(email, cipher, device_id, resp) ==
    [sent |-> <<Exchange(TokenRequest(email, device_id, cipher.master_key), resp)>>,
     result |->
        IF resp.kind = "transport_error" THEN LoginFailed("transport")
        ELSE IF IsSuccess(resp.status)
        THEN IF resp.json # None /\ LoginResponseData_de(resp.json[1]) # None
             THEN Ok(LoginResponseData_de(resp.json[1])[1])
             ELSE LoginFailed("body")
        ELSE LoginFailed("status")]

perform_token_auth(email, cipher, device_id, resp) ==
    [sent |-> <<Exchange(TokenRequest(email, device_id, cipher.master_key_hash), resp)>>,
     result |->
        IF resp.kind = "transport_error" THEN LoginFailed("transport")
        ELSE IF IsSuccess(resp.status)
        THEN IF resp.json # None /\ LoginResponseData_de(resp.json[1]) # None
             THEN Ok(LoginResponseData_de(resp.json[1])[1])
             ELSE LoginFailed("body")
        ELSE LoginFailed("status")]

\* The Session authenticate assembles.
Assemble(tok, kdf, kdf_iterations, cipher) ==
    Ok([access_token |-> tok.access_token,
        expires_in |-> tok.expires_in,
        token_type |-> tok.token_type,
        kdf |-> kdf,
        kdf_iterations |-> kdf_iterations,
        cipher |-> cipher])

\* authenticate going on to the token exchange after a failed prelogin, with
\* an iteration count of its own.
authenticate_NoAbort(email, password, device_id, preResp, tokResp) ==
    LET pre == perform_prelogin(email, preResp)
        kdf == IF IsOk(pre.result) THEN pre.result.val.kdf ELSE 0
        kdf_iterations == IF IsOk(pre.result) THEN pre.result.val.kdf_iterations ELSE 1
        cipher == CipherSuite_from(email, password, kdf_iterations)
        tok == perform_token_auth(email, cipher, device_id, tokResp)
    IN  [sent |-> pre.sent \o tok.sent,
         result |-> IF IsOk(tok.result)
                    THEN Assemble(tok.result.val, kdf, kdf_iterations, cipher)
                    ELSE tok.result]

\* authenticate trying a failed prelogin a second time.
authenticate_Retry(email, password, device_id, preResp, tokResp) ==
    LET pre == perform_prelogin(email, preResp) IN
    IF ~IsOk(pre.result) THEN [sent |-> pre.sent \o pre.sent, result |-> pre.result]
    ELSE
      LET cipher == CipherSuite_from(email, password, pre.result.val.kdf_iterations)
          tok == perform_token_auth(email, cipher, device_id, tokResp)
      IN  [sent |-> pre.sent \o tok.sent,
           result |-> IF IsOk(tok.result)
                      THEN Assemble(tok.result.val, pre.result.val.kdf,
                                    pre.result.val.kdf_iterations, cipher)
                      ELSE tok.result]

\* authenticate deriving the Cipher Suite from kdf in place of kdf_iterations.
authenticate_KdfMixup(email, password, device_id, preResp, tokResp) ==
    LET pre == perform_prelogin(email, preResp) IN
    IF ~IsOk(pre.result) THEN pre
    ELSE
      LET cipher == CipherSuite_from(email, password, pre.result.val.kdf)
          tok == perform_token_auth(email, cipher, device_id, tokResp)
      IN  [sent |-> pre.sent \o tok.sent,
           result |-> IF IsOk(tok.result)
                      THEN Assemble(tok.result.val, pre.result.val.kdf,
                                    pre.result.val.kdf_iterations, cipher)
                      ELSE tok.result]

\* authenticate(email, password), with the device identifier new_v4 draws
\* and the answers of the two servers.
authenticate(email, password, device_id, preResp, tokResp) ==
    LET pre == perform_prelogin(email, preResp) IN
    IF ~IsOk(pre.result) THEN pre
    ELSE
      LET kdf == pre.result.val.kdf
          kdf_iterations == pre.result.val.kdf_iterations
          cipher == CipherSuite_from(email, password, kdf_iterations)
          tok == perform_token_auth(email, cipher, device_id, tokResp)
      IN  IF ~IsOk(tok.result)
          THEN [sent |-> pre.sent \o tok.sent, result |-> tok.result]
          ELSE [sent |-> pre.sent \o tok.sent,
                result |-> Assemble(tok.result.val, kdf, kdf_iterations, cipher)]

\* HeaderValue::from_str(s).is_ok()
HeaderValueOk(token_type, access_token) ==
    token_type \notin HeaderUnsafe /\ access_token \notin HeaderUnsafe

SyncRequest(auth_data) ==
    [method |-> "GET", url |-> SyncUrl,
     headers |-> [authorization |-> auth_data.token_type \o " " \o auth_data.access_token]]

\* sync taking a body without its profile, with an empty profile in its place.
sync_Partial(auth_data, buildOk, resp) ==
    IF ~HeaderValueOk(auth_data.token_type, auth_data.access_token)
    THEN [sent |-> <<>>, result |-> Panicked]
    ELSE IF ~buildOk
    THEN [sent |-> <<>>, result |-> RequestFailed(SyncUrl, "build")]
    ELSE [sent |-> <<Exchange(SyncRequest(auth_data), resp)>>,
          result |->
            IF resp.kind = "transport_error" THEN RequestFailed(SyncUrl, "transport")
            ELSE IF IsSuccess(resp.status)
            THEN IF resp.json # None /\ VaultData_de(resp.json[1]) # None
                 THEN Ok(VaultData_de(resp.json[1])[1])
                 ELSE IF resp.json # None /\ DOMAIN resp.json[1] = {"Object", "Ciphers"}
                 THEN Ok([object |-> resp.json[1].Object,
                          profile |-> [uuid |-> "", name |-> "",
                                       master_password_hint |-> None],
                          ciphers |-> <<>>,
                          domains |-> None])
                 ELSE RequestFailed(SyncUrl, "body")
            ELSE RequestFailed(SyncUrl, "status")]

\* sync(auth_data), with whether Client::builder().build() succeeds and the
\* server's answer.
sync(auth_data, buildOk, resp) ==
    IF ~HeaderValueOk(auth_data.token_type, auth_data.access_token)
    THEN [sent |-> <<>>, result |-> Panicked]
    ELSE IF ~buildOk
    THEN [sent |-> <<>>, result |-> RequestFailed(SyncUrl, "build")]
    ELSE [sent |-> <<Exchange(SyncRequest(auth_data), resp)>>,
          result |->
            IF resp.kind = "transport_error" THEN RequestFailed(SyncUrl, "transport")
            ELSE IF IsSuccess(resp.status)
            THEN IF resp.json # None /\ VaultData_de(resp.json[1]) # None
                 THEN Ok(VaultData_de(resp.json[1])[1])
                 ELSE RequestFailed(SyncUrl, "body")
            ELSE RequestFailed(SyncUrl, "status")]

(* ------------------------------ state -------------------------------- *)

VARIABLES
    dirExists,   \* the application data directory exists
    files,       \* file name -> [exists, text]: the two cache files
    pc,          \* process -> where it stands: idle (the caller is about to
                 \*   call), inside save_data_to (save_open, save_write),
                 \*   inside read_data_from (read), returned (the call has
                 \*   handed its result to the caller) or dead (panicked)
    op,          \* process -> the api function called last
    cur,         \* process -> the file its save_data_to / read_data_from is at
    woff,        \* process -> chunks its BufWriter has passed to the file
    readAuth,    \* process -> read_app_data's local `auth`
    session,     \* process -> the Session its caller holds (Option)
    vault,       \* process -> the VaultData its caller holds (Option)
    args,        \* process -> the arguments of the last call of authenticate
    result,      \* process -> what the last call returned
    sent,        \* process -> the requests the last call sent, with answers
    fsLog,       \* process -> the file-system calls of the last call
    owner,       \* file name -> the process that created the file last, 0 once
                 \*   another process has written into it since (or none did)
    lastSaved,   \* the arguments of the last save_app_data that returned Ok,
                 \*   None once any file has been created or written since
    nextDevice,  \* the device identifiers drawn so far, plus one
    prior,       \* process -> while its save_app_data is between its call and
                 \*   the creation of its second file: the pair the cache
                 \*   held when it was called, if that was the pair of a
                 \*   save_app_data that returned Ok, whole in both files
    crash        \* once a client was killed between the two writes of a
                 \*   save_app_data, and until a file is created again: the
                 \*   Session and VaultData it was saving and the pair the
                 \*   cache held before

vars == <<dirExists, files, pc, op, cur, woff, readAuth, session, vault, args,
          result, sent, fsLog, owner, lastSaved, nextDevice, prior, crash>>

NoFile == [exists |-> FALSE, text |-> <<>>]

FsCall(call, file, ok) == [call |-> call, file |-> file, ok |-> ok]

Init ==
    /\ dirExists = FALSE
    /\ files = [f \in FileNames |-> NoFile]
    /\ pc = [i \in Procs |-> "idle"]
    /\ op = [i \in Procs |-> "start"]
    /\ cur = [i \in Procs |-> AUTH_FILE]
    /\ woff = [i \in Procs |-> 0]
    /\ readAuth = [i \in Procs |-> None]
    /\ session = [i \in Procs |-> None]
    /\ vault = [i \in Procs |-> None]
    /\ args = [i \in Procs |-> None]
    /\ result = [i \in Procs |-> Pending]
    /\ sent = [i \in Procs |-> <<>>]
    /\ fsLog = [i \in Procs |-> <<>>]
    /\ owner = [f \in FileNames |-> 0]
    /\ lastSaved = None
    /\ nextDevice = 1
    /\ prior = [i \in Procs |-> None]
    /\ crash = None

(* ----------------------- the network actions ------------------------- *)

\* A device identifier generated once and used for every call.
DeviceId_Fixed(n) == "device-1"

\* Uuid::new_v4().to_hyphenated().to_string(): the n-th identifier drawn;
\* two draws never give the same.
DeviceId(n) == "device-" \o ToString(n)

\* A call of authenticate(email, password) by the caller of process i.
Authenticate(i) ==
    /\ pc[i] = "idle"
    /\ nextDevice <= MaxDeviceIds
    /\ \E email \in Emails, password \in Passwords, preResp \in PreloginResponses :
        \E tokResp \in IF IsOk(perform_prelogin(email, preResp).result)
                        THEN TokenResponses ELSE {TransportError} :
         LET r == authenticate(email, password, DeviceId(nextDevice), preResp, tokResp)
         IN  /\ op' = [op EXCEPT ![i] = "authenticate"]
             /\ args' = [args EXCEPT ![i] = Some([email |-> email, password |-> password])]
             /\ result' = [result EXCEPT ![i] = r.result]
             /\ sent' = [sent EXCEPT ![i] = r.sent]
             /\ nextDevice' = IF Len(r.sent) = 2 THEN nextDevice + 1 ELSE nextDevice
    /\ pc' = [pc EXCEPT ![i] = "returned"]
    /\ fsLog' = [fsLog EXCEPT ![i] = <<>>]
    /\ UNCHANGED <<dirExists, files, cur, woff, readAuth, session, vault, owner, lastSaved,
                   prior, crash>>

\* A call of sync(&session) by the caller of process i.
Sync(i) ==
    /\ pc[i] = "idle"
    /\ session[i] # None
    /\ \E buildOk \in BOOLEAN :
        \E resp \in IF buildOk /\ HeaderValueOk(session[i][1].token_type,
                                                 session[i][1].access_token)
                     THEN SyncResponses ELSE {TransportError} :
         LET r == sync(session[i][1], buildOk, resp)
         IN  /\ op' = [op EXCEPT ![i] = "sync"]
             /\ args' = [args EXCEPT ![i] = None]
             /\ result' = [result EXCEPT ![i] = r.result]
             /\ sent' = [sent EXCEPT ![i] = r.sent]
             /\ pc' = [pc EXCEPT ![i] =
                          IF r.result = Panicked THEN "panicked" ELSE "returned"]
    /\ fsLog' = [fsLog EXCEPT ![i] = <<>>]
    /\ UNCHANGED <<dirExists, files, cur, woff, readAuth, session, vault, owner,
                   lastSaved, nextDevice, prior, crash>>

(* ------------------------- the local cache --------------------------- *)

\* A path resolved once and remembered while the directory exists.
get_app_data_path_Cached(env, exists) ==
    IF exists
    THEN [ok |-> TRUE, error |-> "", calls |-> <<>>, exists |-> TRUE]
    ELSE IF env = "no_project_dirs"
    THEN [ok |-> FALSE, error |-> "could not retrieve data directory path",
          calls |-> <<FsCall("project_dirs", "", FALSE)>>, exists |-> exists]
    ELSE IF env = "mkdir_failed"
    THEN [ok |-> FALSE, error |-> "could not create data directory",
          calls |-> <<FsCall("project_dirs", "", TRUE),
                      FsCall("create_dir_all", "", FALSE)>>,
          exists |-> exists]
    ELSE [ok |-> TRUE, error |-> "",
          calls |-> <<FsCall("project_dirs", "", TRUE),
                      FsCall("create_dir_all", "", TRUE)>>,
          exists |-> TRUE]

\* get_app_data_path under what the platform does: env is "ok", or
\* "no_project_dirs" (ProjectDirs::from is None), or "mkdir_failed"
\* (create_dir_all fails).  It returns the path or its error string, the
\* file-system calls it made and whether the directory exists afterwards.
get_app_data_path(env, exists) ==
    IF env = "no_project_dirs"
    THEN [ok |-> FALSE, error |-> "could not retrieve data directory path",
          calls |-> <<FsCall("project_dirs", "", FALSE)>>, exists |-> exists]
    ELSE IF env = "mkdir_failed"
    THEN [ok |-> FALSE, error |-> "could not create data directory",
          calls |-> <<FsCall("project_dirs", "", TRUE),
                      FsCall("create_dir_all", "", FALSE)>>,
          exists |-> exists]
    ELSE [ok |-> TRUE, error |-> "",
          calls |-> <<FsCall("project_dirs", "", TRUE),
                      FsCall("create_dir_all", "", TRUE)>>,
          exists |-> TRUE]

\* What the environment can do to a save_data_to / read_data_from up to
\* its File::create / File::open.
PathEnvs(exists) ==
    {"ok", "no_project_dirs"} \cup (IF exists THEN {} ELSE {"mkdir_failed"})

\* File::create without truncation (OpenOptions::new().write(true).create(true)).
File_create_NoTruncate(file) == [exists |-> TRUE, text |-> file.text]

\* File::create(path), when it succeeds: the file exists and is empty.
File_create(file) == [exists |-> TRUE, text |-> <<>>]

\* An open that creates the file it does not find.
File_open_Creating(file, openOk) ==
    [opened |-> openOk, file |-> [exists |-> TRUE, text |-> file.text]]

\* File::open(path): it succeeds on an existing file only, and leaves the
\* file as it is.
File_open(file, openOk) == [opened |-> openOk /\ file.exists, file |-> file]

\* The document save_data_to(filename, data) serialises for process i.
DocOf(i, f) ==
    IF f = AUTH_FILE THEN AuthData_ser(session[i][1]) ELSE VaultData_ser(vault[i][1])

\* save_app_data with the two files the other way round.
SaveOrder_VaultFirst == <<VAULT_FILE, AUTH_FILE>>

\* The files save_app_data saves, in its order.
SaveOrder == <<AUTH_FILE, VAULT_FILE>>

\* The cache holds, whole, the pair of the last save_app_data that returned
\* Ok.
CacheHoldsLastSaved ==
    /\ lastSaved # None
    /\ files[AUTH_FILE].text = ToText(AuthData_ser(lastSaved[1].auth))
    /\ files[VAULT_FILE].text = ToText(VaultData_ser(lastSaved[1].vault))

\* A call of save_app_data(&session, &vault) by the caller of process i.
SaveAppData(i) ==
    /\ pc[i] = "idle"
    /\ session[i] # None /\ vault[i] # None
    /\ pc' = [pc EXCEPT ![i] = "save_open"]
    /\ op' = [op EXCEPT ![i] = "save_app_data"]
    /\ args' = [args EXCEPT ![i] = None]
    /\ cur' = [cur EXCEPT ![i] = SaveOrder[1]]
    /\ woff' = [woff EXCEPT ![i] = 0]
    /\ result' = [result EXCEPT ![i] = Pending]
    /\ sent' = [sent EXCEPT ![i] = <<>>]
    /\ fsLog' = [fsLog EXCEPT ![i] = <<>>]
    /\ prior' = [prior EXCEPT ![i] = IF CacheHoldsLastSaved THEN lastSaved ELSE None]
    /\ UNCHANGED <<dirExists, files, readAuth, session, vault, owner, lastSaved, nextDevice,
                   crash>>

\* save_data_to, lines 373-378: the path, then File::create, which
\* truncates the file.
SaveOpen(i) ==
    /\ pc[i] = "save_open"
    /\ \E env \in PathEnvs(dirExists), createOk \in BOOLEAN :
         LET path == get_app_data_path(env, dirExists)
             f == cur[i]
         IN  /\ dirExists' = path.exists
             /\ IF ~path.ok
                THEN /\ result' = [result EXCEPT ![i] = VaultDataWriteFailed(path.error)]
                     /\ fsLog' = [fsLog EXCEPT ![i] = @ \o path.calls]
                     /\ pc' = [pc EXCEPT ![i] = "returned"]
                     /\ UNCHANGED <<files, owner, lastSaved, prior, crash>>
                ELSE IF ~createOk
                THEN /\ result' = [result EXCEPT ![i] = VaultDataWriteFailed("create")]
                     /\ fsLog' = [fsLog EXCEPT ![i] =
                                     @ \o path.calls \o <<FsCall("create", f, FALSE)>>]
                     /\ pc' = [pc EXCEPT ![i] = "returned"]
                     /\ UNCHANGED <<files, owner, lastSaved, prior, crash>>
                ELSE /\ files' = [files EXCEPT ![f] = File_create(@)]
                     /\ owner' = [owner EXCEPT ![f] = i]
                     /\ fsLog' = [fsLog EXCEPT ![i] =
                                     @ \o path.calls \o <<FsCall("create", f, TRUE)>>]
                     /\ pc' = [pc EXCEPT ![i] = "save_write"]
                     /\ lastSaved' = None
                     /\ prior' = [prior EXCEPT ![i] = IF f = SaveOrder[2] THEN None ELSE @]
                     /\ crash' = None
                     /\ UNCHANGED result
    /\ woff' = [woff EXCEPT ![i] = 0]
    /\ UNCHANGED <<op, cur, readAuth, session, vault, args, sent, nextDevice>>

\* The file after process i's BufWriter passes on its next chunk.
Written(i) ==
    LET f == cur[i]
    IN  [files EXCEPT ![f].text = WriteAt(@, woff[i] + 1, ToText(DocOf(i, f))[woff[i] + 1])]

\* Who owns the file once process i has, or has not, written into it.
OwnerAfter(i, wrote) ==
    [owner EXCEPT ![cur[i]] = IF wrote /\ @ # i THEN 0 ELSE @]

\* save_data_to, line 381, while the document outgrows the buffer:
\* serde_json::to_writer fills the BufWriter, which passes a full buffer on
\* to the file.  A failed write is to_writer's error; the BufWriter, dropped
\* with the chunk still buffered, tries once more and discards the outcome.
SaveWrite(i) ==
    /\ pc[i] = "save_write"
    /\ woff[i] + 1 < Size(DocOf(i, cur[i]))
    /\ \E writeOk \in BOOLEAN, dropOk \in BOOLEAN :
         IF writeOk
         THEN /\ files' = Written(i)
              /\ owner' = OwnerAfter(i, TRUE)
              /\ woff' = [woff EXCEPT ![i] = @ + 1]
              /\ fsLog' = [fsLog EXCEPT ![i] = @ \o <<FsCall("write", cur[i], TRUE)>>]
              /\ UNCHANGED <<pc, result>>
         ELSE /\ files' = IF dropOk THEN Written(i) ELSE files
              /\ owner' = OwnerAfter(i, dropOk)
              /\ fsLog' = [fsLog EXCEPT ![i] =
                              @ \o <<FsCall("write", cur[i], FALSE),
                                     FsCall("drop", cur[i], dropOk)>>]
              /\ result' = [result EXCEPT ![i] = VaultDataWriteFailed("write")]
              /\ pc' = [pc EXCEPT ![i] = "returned"]
              /\ UNCHANGED woff
    /\ lastSaved' = None
    /\ UNCHANGED <<dirExists, op, cur, readAuth, session, vault, args, sent, nextDevice,
                   prior, crash>>

\* save_data_to, lines 381-383, at the end of the document: to_writer
\* returns Ok with the last chunk still in the BufWriter, whose drop writes
\* it and discards the outcome; then save_app_data goes on to vault.json, or
\* returns Ok.
SaveDrop(i) ==
    /\ pc[i] = "save_write"
    /\ woff[i] + 1 = Size(DocOf(i, cur[i]))
    /\ \E dropOk \in BOOLEAN :
         /\ files' = IF dropOk THEN Written(i) ELSE files
         /\ owner' = OwnerAfter(i, dropOk)
         /\ fsLog' = [fsLog EXCEPT ![i] = @ \o <<FsCall("drop", cur[i], dropOk)>>]
    /\ IF cur[i] = SaveOrder[1]
       THEN /\ cur' = [cur EXCEPT ![i] = SaveOrder[2]]
            /\ pc' = [pc EXCEPT ![i] = "save_open"]
            /\ lastSaved' = None
            /\ UNCHANGED result
       ELSE /\ result' = [result EXCEPT ![i] = Ok(None)]
            /\ pc' = [pc EXCEPT ![i] = "returned"]
            /\ lastSaved' = Some([auth |-> session[i][1], vault |-> vault[i][1]])
            /\ UNCHANGED cur
    /\ UNCHANGED <<dirExists, op, woff, readAuth, session, vault, args, sent, nextDevice,
                   prior, crash>>

\* A call of read_app_data() by the caller of process i.
ReadAppData(i) ==
    /\ pc[i] = "idle"
    /\ pc' = [pc EXCEPT ![i] = "read"]
    /\ op' = [op EXCEPT ![i] = "read_app_data"]
    /\ args' = [args EXCEPT ![i] = None]
    /\ cur' = [cur EXCEPT ![i] = AUTH_FILE]
    /\ readAuth' = [readAuth EXCEPT ![i] = None]
    /\ result' = [result EXCEPT ![i] = Pending]
    /\ sent' = [sent EXCEPT ![i] = <<>>]
    /\ fsLog' = [fsLog EXCEPT ![i] = <<>>]
    /\ UNCHANGED <<dirExists, files, woff, session, vault, owner, lastSaved, nextDevice,
                   prior, crash>>

\* A read_data_from that takes the default Session for an auth.json that
\* does not parse.
Parse_Lenient(f, text) ==
    IF f = AUTH_FILE
    THEN IF FromText(text) = None \/ AuthData_de(FromText(text)[1]) = None
         THEN Some([access_token |-> "", expires_in |-> 0, token_type |-> "",
                    kdf |-> 0, kdf_iterations |-> 0, cipher |-> CipherSuite_default])
         ELSE AuthData_de(FromText(text)[1])
    ELSE IF FromText(text) = None THEN None
    ELSE VaultData_de(FromText(text)[1])

\* What read_data_from::<T>(filename) makes of the text of the file.
Parse(f, text) ==
    IF FromText(text) = None THEN None
    ELSE IF f = AUTH_FILE THEN AuthData_de(FromText(text)[1])
    ELSE VaultData_de(FromText(text)[1])

\* read_data_from: the path, File::open, serde_json::from_reader; then
\* read_app_data goes on to vault.json, or returns the AppData.
ReadDataFrom(i) ==
    /\ pc[i] = "read"
    /\ \E env \in PathEnvs(dirExists), openOk \in BOOLEAN, readOk \in BOOLEAN :
         LET path == get_app_data_path(env, dirExists)
             f == cur[i]
             opened == File_open(files[f], openOk).opened
             data == Parse(f, files[f].text)
             calls == path.calls
                        \o (IF path.ok THEN <<FsCall("open", f, opened)>> ELSE <<>>)
                        \o (IF path.ok /\ opened THEN <<FsCall("read", f, readOk)>> ELSE <<>>)
             fail(error) ==
                /\ result' = [result EXCEPT ![i] = VaultDataReadFailed(error)]
                /\ pc' = [pc EXCEPT ![i] = "returned"]
                /\ UNCHANGED <<cur, readAuth>>
         IN  /\ dirExists' = path.exists
             /\ files' = [files EXCEPT ![f] =
                             IF path.ok THEN File_open(@, openOk).file ELSE @]
             /\ fsLog' = [fsLog EXCEPT ![i] = @ \o calls]
             /\ IF ~path.ok THEN fail(path.error)
                ELSE IF ~opened THEN fail("open")
                ELSE IF ~readOk THEN fail("read")
                ELSE IF data = None THEN fail("parse")
                ELSE IF f = AUTH_FILE
                THEN /\ readAuth' = [readAuth EXCEPT ![i] = data]
                     /\ cur' = [cur EXCEPT ![i] = VAULT_FILE]
                     /\ UNCHANGED <<pc, result>>
                ELSE /\ result' = [result EXCEPT ![i] =
                                      Ok([auth |-> readAuth[i][1], vault |-> data[1]])]
                     /\ pc' = [pc EXCEPT ![i] = "returned"]
                     /\ UNCHANGED <<cur, readAuth>>
    /\ UNCHANGED <<op, woff, session, vault, args, sent, owner, lastSaved, nextDevice,
                   prior, crash>>

\* The caller takes what the call returned: it keeps a Session, a VaultData
\* or an AppData it was given, and an error leaves it with what it held.
Return(i) ==
    /\ pc[i] = "returned"
    /\ pc' = [pc EXCEPT ![i] = "idle"]
    /\ session' = [session EXCEPT ![i] =
                      IF ~IsOk(result[i]) THEN @
                      ELSE IF op[i] = "authenticate" THEN Some(result[i].val)
                      ELSE IF op[i] = "read_app_data" THEN Some(result[i].val.auth)
                      ELSE @]
    /\ vault' = [vault EXCEPT ![i] =
                    IF ~IsOk(result[i]) THEN @
                    ELSE IF op[i] = "sync" THEN Some(result[i].val)
                    ELSE IF op[i] = "read_app_data" THEN Some(result[i].val.vault)
                    ELSE @]
    /\ args' = [args EXCEPT ![i] = None]
    /\ result' = [result EXCEPT ![i] = Pending]
    /\ sent' = [sent EXCEPT ![i] = <<>>]
    /\ fsLog' = [fsLog EXCEPT ![i] = <<>>]
    /\ readAuth' = [readAuth EXCEPT ![i] = None]
    /\ prior' = [prior EXCEPT ![i] = None]
    /\ UNCHANGED <<dirExists, files, op, cur, woff, owner, lastSaved, nextDevice, crash>>

\* Process i is inside save_app_data, its first save_data_to has returned
\* with its document written and its second has not begun.
BetweenWrites(i) ==
    /\ pc[i] = "save_open"
    /\ cur[i] = SaveOrder[2]
    /\ fsLog[i][Len(fsLog[i])] = FsCall("drop", SaveOrder[1], TRUE)

\* The process ends (it returns, is killed, or has panicked) and the client
\* is started again: what it held in memory is gone, the files stay.
Restart(i) ==
    /\ \/ pc[i] # "idle"
       \/ session[i] # None
       \/ vault[i] # None
    /\ pc' = [pc EXCEPT ![i] = "idle"]
    /\ op' = [op EXCEPT ![i] = "start"]
    /\ args' = [args EXCEPT ![i] = None]
    /\ cur' = [cur EXCEPT ![i] = AUTH_FILE]
    /\ woff' = [woff EXCEPT ![i] = 0]
    /\ readAuth' = [readAuth EXCEPT ![i] = None]
    /\ session' = [session EXCEPT ![i] = None]
    /\ vault' = [vault EXCEPT ![i] = None]
    /\ result' = [result EXCEPT ![i] = Pending]
    /\ sent' = [sent EXCEPT ![i] = <<>>]
    /\ fsLog' = [fsLog EXCEPT ![i] = <<>>]
    /\ prior' = [prior EXCEPT ![i] = None]
    /\ crash' = IF BetweenWrites(i) /\ prior[i] # None
                THEN Some([auth |-> session[i][1], vault |-> vault[i][1],
                           was |-> prior[i][1]])
                ELSE crash
    /\ UNCHANGED <<dirExists, files, owner, lastSaved, nextDevice>>

(* -------------------------- specifications --------------------------- *)

\* One client: the api is single-threaded and fully synchronous.
Next ==
    \/ Authenticate(1)
    \/ Sync(1)
    \/ SaveAppData(1)
    \/ SaveOpen(1)
    \/ SaveWrite(1)
    \/ SaveDrop(1)
    \/ ReadAppData(1)
    \/ ReadDataFrom(1)
    \/ Return(1)
    \/ Restart(1)

Spec == Init /\ [][Next]_vars

\* Two clients started on the same cache directory, each holding a Session
\* and a VaultData and each calling save_app_data once: the cache files are
\* the only state they share, and nothing orders their file-system calls.
RaceSessions ==
    LET runs == { authenticate(e, p, DeviceId(1), pre, tok) :
                    e \in Emails, p \in Passwords,
                    pre \in { Http(200, b) : b \in PreloginBodies },
                    tok \in { Http(200, b) : b \in TokenBodies } }
    IN  { r.result.val : r \in { r \in runs : IsOk(r.result) } }

RaceVaults ==
    LET runs == { sync(a, TRUE, Http(200, b)) : a \in RaceSessions, b \in SyncBodies }
    IN  { r.result.val : r \in { r \in runs : IsOk(r.result) } }

InitRace ==
    /\ dirExists = FALSE
    /\ files = [f \in FileNames |-> NoFile]
    /\ pc = [i \in Procs |-> "idle"]
    /\ op = [i \in Procs |-> "start"]
    /\ cur = [i \in Procs |-> AUTH_FILE]
    /\ woff = [i \in Procs |-> 0]
    /\ readAuth = [i \in Procs |-> None]
    /\ session \in [Procs -> { Some(a) : a \in { a \in RaceSessions : a.access_token = "tokA" } }]
    /\ vault \in [Procs -> { Some(v) : v \in RaceVaults }]
    /\ args = [i \in Procs |-> None]
    /\ result = [i \in Procs |-> Pending]
    /\ sent = [i \in Procs |-> <<>>]
    /\ fsLog = [i \in Procs |-> <<>>]
    /\ owner = [f \in FileNames |-> 0]
    /\ lastSaved = None
    /\ nextDevice = 1
    /\ prior = [i \in Procs |-> None]
    /\ crash = None

NextRace ==
    \E i \in Procs :
        \/ SaveAppData(i)
        \/ SaveOpen(i)
        \/ SaveWrite(i)
        \/ SaveDrop(i)

SpecRace == InitRace /\ [][NextRace]_vars

(* ------------------------------ claims ------------------------------- *)

\* Process i's call of f has returned and its caller has not moved on.
Returned(i, f) == pc[i] = "returned" /\ op[i] = f

\* Every file-system call of process i's call succeeded.
NoFsFailure(i) == \A k \in 1..Len(fsLog[i]) : fsLog[i][k].ok

\* The persisted fields of a Session: all but the Cipher Suite.
SameButCipher(a, b) ==
    /\ a.access_token = b.access_token
    /\ a.expires_in = b.expires_in
    /\ a.token_type = b.token_type
    /\ a.kdf = b.kdf
    /\ a.kdf_iterations = b.kdf_iterations

\* C1 (as stated): a read_app_data that follows a save_app_data(S, V) that
\* returned Ok, with no write to the cache in between and no file-system
\* call of its own failing, returns Ok with a Session equal to S in every
\* field but the Cipher Suite and a VaultData equal to V.
C1_RoundTrip ==
    \A i \in Procs :
        (Returned(i, "read_app_data") /\ lastSaved # None /\ NoFsFailure(i)) =>
            /\ IsOk(result[i])
            /\ SameButCipher(result[i].val.auth, lastSaved[1].auth)
            /\ result[i].val.vault = lastSaved[1].vault

\* An exchange whose answer perform_prelogin / perform_token_auth / sync
\* cannot accept, or that carries a status of 400 or more.
Answered(x) == x.resp.kind = "http"
BadStatus(x) == Answered(x) /\ x.resp.status >= 400
NoSuccess(x) ==
    ~Answered(x) \/ x.resp.status \notin 200..299 \/ x.resp.json = None
PreloginUnusable(x) ==
    NoSuccess(x) \/ PreloginResponseData_de(x.resp.json[1]) = None
TokenUnusable(x) ==
    NoSuccess(x) \/ LoginResponseData_de(x.resp.json[1]) = None
SyncUnusable(x) ==
    NoSuccess(x) \/ VaultData_de(x.resp.json[1]) = None

\* C2: authenticate sends the prelogin request first and the token request,
\* carrying the hash derived from the prelogin's iteration count, second; a
\* failed prelogin means no token request; a failure of either returns an
\* error and no Session; a Session is returned only when both succeeded.
C2_AuthenticateSequence ==
    \A i \in Procs :
        Returned(i, "authenticate") =>
            LET x == sent[i] IN
            /\ Len(x) \in {1, 2}
            /\ x[1].req.url = PreloginUrl
            /\ PreloginUnusable(x[1]) => (Len(x) = 1 /\ ~IsOk(result[i]))
            /\ Len(x) = 2 =>
                 /\ x[2].req.url = AUTH_URL
                 /\ x[2].req.body.password =
                      CipherSuite_from(args[i][1].email, args[i][1].password,
                          PreloginResponseData_de(x[1].resp.json[1])[1].kdf_iterations
                      ).master_key_hash
                 /\ TokenUnusable(x[2]) => ~IsOk(result[i])
            /\ IsOk(result[i]) =>
                 (Len(x) = 2 /\ ~PreloginUnusable(x[1]) /\ ~TokenUnusable(x[2]))
            /\ ~IsOk(result[i]) =>
                 /\ DOMAIN result[i] = {"kind", "error"}
                 /\ result[i].kind \in {"PreloginFailed", "LoginFailed"}

C2_Witness ==
    /\ Returned(1, "authenticate")
    /\ Len(sent[1]) = 2
    /\ TokenUnusable(sent[1][2])
    /\ session[1] # None

\* C3: a prelogin answer with a status of 400 or more fails authenticate
\* with PreloginFailed, a token answer with such a status fails it with
\* LoginFailed, a sync answer with such a status fails sync with
\* RequestFailed carrying the sync endpoint; and so does every transport
\* error, other status that is no success, and body that does not parse.
C3_FailureMapping ==
    \A i \in Procs :
        /\ Returned(i, "authenticate") =>
             /\ (BadStatus(sent[i][1]) \/ PreloginUnusable(sent[i][1])) =>
                    result[i].kind = "PreloginFailed"
             /\ (Len(sent[i]) = 2
                   /\ (BadStatus(sent[i][2]) \/ TokenUnusable(sent[i][2]))) =>
                    result[i].kind = "LoginFailed"
        /\ (Returned(i, "sync") /\ Len(sent[i]) = 1
              /\ (BadStatus(sent[i][1]) \/ SyncUnusable(sent[i][1]))) =>
             /\ result[i].kind = "RequestFailed"
             /\ result[i].endpoint = SyncUrl

C3_Witness ==
    /\ Returned(1, "sync")
    /\ Len(sent[1]) = 1
    /\ BadStatus(sent[1][1])
    /\ sent[1][1].resp.json # None
    /\ vault[1] # None

\* The Cipher Suite states a Session can own.
DerivedSecrets ==
    UNION { { c.master_key, c.master_key_hash } :
              c \in { CipherSuite_from(e, p, n) :
                        e \in Emails, p \in Passwords, n \in KdfIterationCounts } }

\* C4: no text in auth.json or vault.json holds a Cipher Suite, a master key
\* or a master-key hash, and the Session read_app_data returns carries the
\* default Cipher Suite whatever Cipher Suite the saved Session owned.
C4_CipherNeverPersisted ==
    /\ \A f \in FileNames : \A k \in 1..Len(files[f].text) :
         LET doc == files[f].text[k].doc IN
         /\ DOMAIN doc \cap {"cipher", "master_key", "master_key_hash"} = {}
         /\ \A key \in DOMAIN doc \cap {"access_token", "token_type", "object"} :
              doc[key] \notin DerivedSecrets
    /\ \A i \in Procs :
         (Returned(i, "read_app_data") /\ IsOk(result[i])) =>
            /\ result[i].val.auth.cipher = CipherSuite_default
            /\ result[i].val.auth.cipher.master_key \notin DerivedSecrets
            /\ result[i].val.auth.cipher.master_key_hash \notin DerivedSecrets

C4_Witness ==
    /\ Returned(1, "read_app_data")
    /\ IsOk(result[1])
    /\ lastSaved # None
    /\ lastSaved[1].auth.cipher.master_key \in DerivedSecrets
    /\ files[AUTH_FILE].text # <<>>

\* C5: a read_app_data that finds no cache file returns
\* VaultDataReadFailed, and no step of read_app_data creates a cache file or
\* changes the content of one.
C5_MissingFileRead ==
    /\ [](\A i \in Procs :
            (Returned(i, "read_app_data")
               /\ ~files[AUTH_FILE].exists /\ ~files[VAULT_FILE].exists) =>
                result[i].kind = "VaultDataReadFailed")
    /\ [][\A i \in Procs :
            (pc[i] = "read" /\ pc'[i] \in {"read", "returned"}) => files' = files]_vars

C5_Witness ==
    /\ Returned(1, "read_app_data")
    /\ ~files[AUTH_FILE].exists /\ ~files[VAULT_FILE].exists
    /\ dirExists
    /\ Len(fsLog[1]) = 3
    /\ fsLog[1][3] = FsCall("open", AUTH_FILE, FALSE)
    /\ result[1].kind = "VaultDataReadFailed"

\* File f was created (and so truncated) by process i's call.
Created(i, f) ==
    \E k \in 1..Len(fsLog[i]) : fsLog[i][k] = FsCall("create", f, TRUE)

\* No write of process i's call was lost in the drop of a BufWriter.
NoLostWrite(i) ==
    \A k \in 1..Len(fsLog[i]) : fsLog[i][k].call = "drop" => fsLog[i][k].ok

\* C6 (as stated): when save_app_data returns VaultDataWriteFailed, it has
\* not created one cache file anew while the other, which it did not
\* reach, still holds the data of an earlier save, other than this call's.
C6_NoPartialOverwrite ==
    \A i \in Procs :
        (/\ Returned(i, "save_app_data")
         /\ result[i].kind = "VaultDataWriteFailed"
         /\ NoLostWrite(i)) =>
            ~ \E f \in FileNames, g \in FileNames :
                /\ Created(i, f)
                /\ files[f].text = ToText(DocOf(i, f))
                /\ ~Created(i, g)
                /\ Parse(g, files[g].text) # None
                /\ files[g].text # ToText(DocOf(i, g))

BothSaved == \A i \in Procs : Returned(i, "save_app_data")

\* C7, first half: an error of save_app_data comes from a file-system call
\* of its own that failed, never from the other client.
NoDetection ==
    \A i \in Procs :
        (Returned(i, "save_app_data") /\ ~IsOk(result[i])) => ~NoFsFailure(i)

\* C7 (as stated): two clients saving at once do not detect each other,
\* and once both have finished, with every write done, auth.json and
\* vault.json hold the Session and the VaultData of one and the same client.
C7_LastWriterWins ==
    /\ NoDetection
    /\ (BothSaved /\ \A i \in Procs : IsOk(result[i]) /\ NoFsFailure(i)) =>
          \E i \in Procs : \A f \in FileNames : files[f].text = ToText(DocOf(i, f))

\* C7 (amended): two clients saving at once do not detect each other, and
\* once both have finished the last writer wins file by file: a file that
\* one client created after the other's last write to it holds that
\* client's document, or the part of it that reached the file, and all of
\* it when none of that client's writes failed.
C7_LastWriterWinsPerFile ==
    /\ NoDetection
    /\ BothSaved =>
          \A f \in FileNames : \A i \in Procs :
              owner[f] = i =>
                 /\ IsPrefix(files[f].text, ToText(DocOf(i, f)))
                 /\ (IsOk(result[i]) /\ NoFsFailure(i)) =>
                        files[f].text = ToText(DocOf(i, f))

\* The two files come from different clients, whose data differ.
C7_Witness ==
    /\ BothSaved
    /\ \A i \in Procs : IsOk(result[i]) /\ NoFsFailure(i)
    /\ owner[AUTH_FILE] = 1 /\ owner[VAULT_FILE] = 2
    /\ session[1] # session[2] /\ vault[1] # vault[2]
    /\ Len(files[VAULT_FILE].text) = 2

NetOps == {"authenticate", "sync"}

\* The requests of process i's call that went to url.
RequestsTo(i, url) == { k \in 1..Len(sent[i]) : sent[i][k].req.url = url }

\* C8: a call of authenticate sends at most one prelogin and one token
\* request, a call of sync at most one GET; neither makes a file-system
\* call, changes the cache directory or a cache file, or answers a failed
\* request with an Ok.
C8_NoRetryNoFallback ==
    /\ [](\A i \in Procs :
            (op[i] \in NetOps /\ pc[i] \in {"returned", "panicked"}) =>
                /\ Cardinality(RequestsTo(i, PreloginUrl)) <= 1
                /\ Cardinality(RequestsTo(i, AUTH_URL)) <= 1
                /\ Cardinality(RequestsTo(i, SyncUrl)) <= 1
                /\ op[i] = "authenticate" => RequestsTo(i, SyncUrl) = {}
                /\ op[i] = "sync" =>
                     /\ Len(sent[i]) <= 1
                     /\ \A k \in 1..Len(sent[i]) :
                          /\ sent[i][k].req.method = "GET"
                          /\ sent[i][k].req.url = SyncUrl
                          /\ SyncUnusable(sent[i][k]) => ~IsOk(result[i])
                     /\ sent[i] = <<>> => ~IsOk(result[i])
                /\ fsLog[i] = <<>>)
    /\ [][\A i \in Procs :
            (pc[i] = "idle" /\ op'[i] \in NetOps) =>
                (files' = files /\ dirExists' = dirExists)]_vars

\* A failed sync while a cache exists that could have stood in for it.
C8_Witness ==
    /\ Returned(1, "sync")
    /\ ~IsOk(result[1])
    /\ Len(sent[1]) = 1
    /\ Parse(AUTH_FILE, files[AUTH_FILE].text) # None
    /\ Parse(VAULT_FILE, files[VAULT_FILE].text) # None

\* C9: the prelogin request carries the email and nothing else; the token
\* request's password is the master-key hash derived from the email, the
\* password and the iteration count the prelogin returned; no field of a
\* request of authenticate is the password or the master key, and the
\* header of sync's request is not the Session's master key.
C9_OnlyHashLeaves ==
    \A i \in Procs :
        /\ Returned(i, "authenticate") =>
             LET x == sent[i]
                 email == args[i][1].email
                 password == args[i][1].password
             IN  /\ x[1].req.body = [email |-> email]
                 /\ Len(x) = 2 =>
                      LET n == PreloginResponseData_de(x[1].resp.json[1])[1].kdf_iterations
                          cipher == CipherSuite_from(email, password, n)
                      IN  /\ x[2].req.body.password = cipher.master_key_hash
                          /\ x[2].req.body.username = email
                          /\ \A key \in DOMAIN x[2].req.body :
                               x[2].req.body[key] \notin
                                  {password} \cup
                                  { CipherSuite_from(email, password, m).master_key :
                                       m \in KdfIterationCounts }
                 /\ \A k \in 1..Len(x) : \A key \in DOMAIN x[k].req.body :
                      x[k].req.body[key] # password
        /\ (op[i] = "sync" /\ pc[i] \in {"returned", "panicked"}) =>
             \A k \in 1..Len(sent[i]) :
                /\ DOMAIN sent[i][k].req = {"method", "url", "headers"}
                /\ DOMAIN sent[i][k].req.headers = {"authorization"}
                /\ sent[i][k].req.headers.authorization \notin
                      {session[i][1].cipher.master_key, session[i][1].cipher.master_key_hash}

C9_Witness ==
    /\ Returned(1, "authenticate")
    /\ Len(sent[1]) = 2
    /\ sent[1][2].req.body.password = "mkh(ann@x,hunter2,2)"

\* C10: a Session authenticate returns has the kdf and kdf_iterations of
\* the prelogin answer received in that call, and the Cipher Suite derived
\* from the email, the password and that iteration count.
C10_KdfMatchesPrelogin ==
    \A i \in Procs :
        (Returned(i, "authenticate") /\ IsOk(result[i])) =>
            LET body == sent[i][1].resp.json[1]
                kdf == Get(body, "kdf", "Kdf")
                n == Get(body, "kdf_iterations", "KdfIterations")
            IN  /\ result[i].val.kdf = kdf
                /\ result[i].val.kdf_iterations = n
                /\ result[i].val.cipher =
                      CipherSuite_from(args[i][1].email, args[i][1].password, n)

\* A second authenticate whose prelogin returns another iteration count
\* than the Session held from the first.
C10_Witness ==
    /\ Returned(1, "authenticate")
    /\ IsOk(result[1])
    /\ session[1] # None
    /\ session[1][1].kdf_iterations # result[1].val.kdf_iterations

\* The device identifiers the calls of perform_token_auth have drawn so far.
DevicesDrawn == { DeviceId(n) : n \in 1..(nextDevice - 1) }

\* The strings a Session holds.
SessionStrings(a) ==
    {a.access_token, a.token_type, a.cipher.master_key, a.cipher.master_key_hash}

\* C11: the deviceIdentifier of a token request is none of the identifiers
\* that earlier token requests carried (so two consecutive calls for the
\* same email send two different ones); the identifier goes into the token
\* request only: no Session, returned or held, and no text of a cache file
\* holds one.
C11_DeviceIdFresh ==
    /\ [][\A i \in Procs :
            (pc[i] = "idle" /\ op'[i] = "authenticate" /\ pc'[i] = "returned"
               /\ Len(sent'[i]) = 2) =>
                sent'[i][2].req.body.deviceIdentifier \notin DevicesDrawn]_vars
    /\ [](\A i \in Procs :
            /\ Returned(i, "authenticate") =>
                 /\ "deviceIdentifier" \notin DOMAIN sent[i][1].req.body
                 /\ IsOk(result[i]) =>
                      /\ DOMAIN result[i].val \cap {"device_id", "deviceIdentifier"} = {}
                      /\ SessionStrings(result[i].val) \cap DevicesDrawn = {}
            /\ session[i] # None => SessionStrings(session[i][1]) \cap DevicesDrawn = {})
    /\ [](\A f \in FileNames : \A k \in 1..Len(files[f].text) :
            LET doc == files[f].text[k].doc IN
            /\ DOMAIN doc \cap {"device_id", "deviceIdentifier"} = {}
            /\ \A key \in DOMAIN doc \cap {"access_token", "token_type", "object"} :
                 doc[key] \notin DevicesDrawn)

\* The second of two calls for the same email that both reached the token
\* endpoint, the Session of the first being held and saved.
C11_Witness ==
    /\ Returned(1, "authenticate")
    /\ IsOk(result[1])
    /\ Len(sent[1]) = 2
    /\ sent[1][2].req.body.deviceIdentifier = DeviceId(2)
    /\ session[1] # None
    /\ Parse(AUTH_FILE, files[AUTH_FILE].text) # None

\* The URI forms of the entries of the vaults the service sends.
VaultForms == {<<>>, <<"uri">>, <<"uris">>}

\* The VaultData of ServerVault with entries in the given forms.
ExpectedVault(forms) ==
    [object |-> "sync",
     profile |-> [uuid |-> "p1", name |-> "Ann", master_password_hint |-> None],
     ciphers |->
        [k \in 1..Len(forms) |->
            [uuid |-> "c1", name |-> "2.name",
             data |-> [uri |-> IF forms[k] = "uri" THEN Some("2.uri") ELSE None,
                       uris |-> IF forms[k] = "uris"
                                THEN Some(<<[uri |-> "2.uri", match_ |-> None]>>)
                                ELSE None,
                       username |-> "2.user"],
             login |-> None]],
     domains |-> None]

\* Process i's sync has returned, having received the vault with its keys
\* spelled as n spells them.
SyncGot(i, n, forms) ==
    /\ Returned(i, "sync")
    /\ Len(sent[i]) = 1
    /\ sent[i][1].resp = Http(200, Some(VaultBody(n, forms)))

\* C12 (as stated): a sync body with the capitalised keys ("Id", "Name") and
\* a body with the same values under the lowercase keys ("id", "name") both
\* deserialise, and to the same VaultData.
C12_AliasTolerance ==
    \A i \in Procs : \A forms \in VaultForms : \A n \in {AliasNames, LowercaseNames} :
        SyncGot(i, n, forms) =>
            /\ IsOk(result[i])
            /\ result[i].val = ExpectedVault(forms)

\* C12 (amended): a sync body with the capitalised keys and a body with the
\* same values under the names the structs declare ("uuid", "name",
\* "match_") both deserialise, and to the same VaultData; a body that spells
\* a required field by another lowercase name ("id") fails the sync with
\* RequestFailed.
C12_AliasOrFieldName ==
    \A i \in Procs : \A forms \in VaultForms :
        /\ \A n \in {AliasNames, FieldNames} :
             SyncGot(i, n, forms) =>
                /\ IsOk(result[i])
                /\ result[i].val = ExpectedVault(forms)
        /\ SyncGot(i, LowercaseNames, forms) =>
                result[i] = RequestFailed(SyncUrl, "body")

C12_Witness ==
    /\ SyncGot(1, FieldNames, <<"uris">>)
    /\ IsOk(result[1])
    /\ ServerVault(<<ServerEntry("uris")>>) = VaultBody(AliasNames, <<"uris">>)

\* What an entry payload holds of its two URI forms.
HasUriOnly(d) == d.uri = Some("2.uri") /\ d.uris = None
HasUrisOnly(d) == d.uri = None /\ d.uris = Some(<<[uri |-> "2.uri", match_ |-> None]>>)

\* Serialising an entry payload and deserialising the result.
Reserialised(d) == CipherEntryData_de(CipherEntryData_ser(d))

\* C13: an entry whose payload has the singular uri and no uris list, or a
\* uris list and no uri, deserialises without error; serialising the entry
\* again and deserialising the result gives the same entry, the form that
\* was present keeping its value and the absent one staying absent; and so
\* it is for every entry read_app_data returns from the cache.
C13_UriFormPreserved ==
    \A i \in Procs :
        /\ \A form \in {"uri", "uris"} :
             SyncGot(i, AliasNames, <<form>>) =>
                /\ IsOk(result[i])
                /\ LET e == result[i].val.ciphers[1]
                       d == e.data
                   IN  /\ form = "uri" => (HasUriOnly(d) /\ HasUriOnly(Reserialised(d)))
                       /\ form = "uris" => (HasUrisOnly(d) /\ HasUrisOnly(Reserialised(d)))
                       /\ CipherEntry_ok(CipherEntry_ser(e))
                       /\ CipherEntry_de(CipherEntry_ser(e)) = e
        /\ (Returned(i, "read_app_data") /\ IsOk(result[i]) /\ lastSaved # None) =>
             LET old == lastSaved[1].vault.ciphers
                 new == result[i].val.vault.ciphers
             IN  /\ Len(new) = Len(old)
                 /\ \A k \in 1..Len(new) :
                      /\ HasUriOnly(old[k].data) <=> HasUriOnly(new[k].data)
                      /\ HasUrisOnly(old[k].data) <=> HasUrisOnly(new[k].data)
                      /\ HasUriOnly(new[k].data) \/ HasUrisOnly(new[k].data)

\* An entry with the singular uri, read back from the cache after its save.
C13_Witness ==
    /\ Returned(1, "read_app_data")
    /\ IsOk(result[1])
    /\ lastSaved # None
    /\ Len(result[1].val.vault.ciphers) = 1
    /\ HasUriOnly(result[1].val.vault.ciphers[1].data)

CacheOps == {"save_app_data", "read_app_data"}

\* The places in the file-system calls of process i's call where it
\* resolved the application data directory (ProjectDirs::from, followed by
\* create_dir_all), and where it created or opened a cache file.
Resolutions(i) == { k \in 1..Len(fsLog[i]) : fsLog[i][k].call = "project_dirs" }
Opens(i) == { k \in 1..Len(fsLog[i]) : fsLog[i][k].call \in {"create", "open"} }

\* C14 (as stated): a call of save_app_data or of read_app_data resolves the
\* application data directory exactly once, however many cache files it
\* goes through.
C14_ResolvedOncePerCall ==
    \A i \in Procs :
        (pc[i] = "returned" /\ op[i] \in CacheOps) =>
            Cardinality(Resolutions(i)) = 1

\* C14 (amended): a call of save_app_data or of read_app_data resolves the
\* application data directory once for each cache file it gets to, just
\* before it creates or opens that file: once when it fails at auth.json,
\* twice when it goes on to vault.json, and so twice whenever it returns Ok.
C14_ResolvedOncePerFile ==
    \A i \in Procs :
        (pc[i] = "returned" /\ op[i] \in CacheOps) =>
            /\ Cardinality(Resolutions(i)) = (IF cur[i] = AUTH_FILE THEN 1 ELSE 2)
            /\ IsOk(result[i]) => Cardinality(Resolutions(i)) = 2
            /\ Cardinality(Opens(i)) <= Cardinality(Resolutions(i))
            /\ \A k \in Opens(i) :
                 /\ k > 2
                 /\ fsLog[i][k - 2] = FsCall("project_dirs", "", TRUE)
                 /\ fsLog[i][k - 1] = FsCall("create_dir_all", "", TRUE)

C14_Witness ==
    /\ Returned(1, "read_app_data")
    /\ IsOk(result[1])
    /\ Cardinality(Resolutions(1)) = 2
    /\ Cardinality(Opens(1)) = 2

\* The error kinds of each api function.
ErrorKinds(f) ==
    IF f = "authenticate" THEN {"PreloginFailed", "LoginFailed"}
    ELSE IF f = "sync" THEN {"RequestFailed"}
    ELSE IF f = "save_app_data" THEN {"VaultDataWriteFailed"}
    ELSE IF f = "read_app_data" THEN {"VaultDataReadFailed"}
    ELSE {}

\* The application data directory could not be resolved or created in
\* process i's call.
PathFailed(i) ==
    \E k \in 1..Len(fsLog[i]) :
        fsLog[i][k].call \in {"project_dirs", "create_dir_all"} /\ ~fsLog[i][k].ok

\* C15: every error a call returns is of the kind of its stage and carries
\* a cause: authenticate returns PreloginFailed when it failed in the
\* prelogin and LoginFailed when it failed in the token exchange, sync
\* returns RequestFailed, save_app_data VaultDataWriteFailed and
\* read_app_data VaultDataReadFailed, these two also when the data directory
\* could not be resolved or created.
C15_OneKindPerStage ==
    \A i \in Procs :
        pc[i] = "returned" =>
            /\ result[i].kind \in {"Ok"} \cup ErrorKinds(op[i])
            /\ ~IsOk(result[i]) =>
                 /\ "error" \in DOMAIN result[i]
                 /\ DOMAIN result[i] \subseteq {"kind", "error", "endpoint"}
            /\ (op[i] = "authenticate" /\ ~IsOk(result[i])) =>
                 result[i].kind = (IF Len(sent[i]) = 1 THEN "PreloginFailed"
                                   ELSE "LoginFailed")
            /\ (op[i] \in CacheOps /\ PathFailed(i)) =>
                 /\ result[i].kind \in ErrorKinds(op[i])
                 /\ result[i].error \in {"could not retrieve data directory path",
                                         "could not create data directory"}

\* read_app_data where the data directory cannot be created.
C15_Witness ==
    /\ Returned(1, "read_app_data")
    /\ PathFailed(1)
    /\ result[1] = VaultDataReadFailed("could not create data directory")

\* The cache file f holds a document that deserialises.
Parsable(f) ==
    /\ files[f].exists
    /\ FromText(files[f].text) # None
    /\ IF f = AUTH_FILE THEN AuthData_de(FromText(files[f].text)[1]) # None
       ELSE VaultData_de(FromText(files[f].text)[1]) # None

\* The file-system calls of process i's call that went to file f.
CallsOn(i, f) == { k \in 1..Len(fsLog[i]) : fsLog[i][k].file = f }

\* C16: read_app_data opens auth.json before vault.json and each at most
\* once; it returns Ok only when both files were opened, read and parsed,
\* with the Session of auth.json and the VaultData of vault.json; every
\* other call returns VaultDataReadFailed and nothing else; and when
\* auth.json is missing or does not parse, vault.json is not opened.
C16_ReadAllOrNothing ==
    \A i \in Procs :
        Returned(i, "read_app_data") =>
            /\ \A k \in CallsOn(i, AUTH_FILE) : \A l \in CallsOn(i, VAULT_FILE) : k < l
            /\ \A f \in FileNames :
                 Cardinality({ k \in CallsOn(i, f) : fsLog[i][k].call = "open" }) <= 1
            /\ IsOk(result[i]) =>
                 /\ NoFsFailure(i)
                 /\ \A f \in FileNames :
                      /\ Parsable(f)
                      /\ \E k \in CallsOn(i, f) : fsLog[i][k] = FsCall("open", f, TRUE)
                      /\ \E k \in CallsOn(i, f) : fsLog[i][k] = FsCall("read", f, TRUE)
                 /\ DOMAIN result[i].val = {"auth", "vault"}
                 /\ result[i].val.auth = AuthData_de(FromText(files[AUTH_FILE].text)[1])[1]
                 /\ result[i].val.vault = VaultData_de(FromText(files[VAULT_FILE].text)[1])[1]
            /\ (~NoFsFailure(i) \/ \E f \in FileNames : ~Parsable(f)) =>
                 /\ result[i].kind = "VaultDataReadFailed"
                 /\ DOMAIN result[i] = {"kind", "error"}
            /\ ~Parsable(AUTH_FILE) =>
                 /\ CallsOn(i, VAULT_FILE) = {}
                 /\ ~IsOk(result[i])

\* auth.json is there and does not parse, vault.json would.
C16_Witness ==
    /\ Returned(1, "read_app_data")
    /\ files[AUTH_FILE].exists
    /\ ~Parsable(AUTH_FILE)
    /\ Parsable(VAULT_FILE)
    /\ NoFsFailure(1)
    /\ result[1] = VaultDataReadFailed("parse")

\* C17: save_app_data writes auth.json before vault.json; when a
\* save_app_data(S2, V2), called on a cache that holds the pair (S1, V1) of
\* a save_app_data that returned Ok, is killed after its auth.json was
\* written and before its vault.json is begun, the cache holds S2 in
\* auth.json and V1 in vault.json, and a read_app_data on that cache whose
\* file-system calls all succeed returns Ok with S2 (but for the Cipher
\* Suite) and V1.
C17_CrashLeavesMismatchedPair ==
    /\ \A i \in Procs :
         (op[i] = "save_app_data" /\ pc[i] \in {"save_open", "save_write", "returned"}) =>
            \A k \in CallsOn(i, AUTH_FILE) : \A l \in CallsOn(i, VAULT_FILE) : k < l
    /\ crash # None =>
         /\ files[AUTH_FILE].text = ToText(AuthData_ser(crash[1].auth))
         /\ files[VAULT_FILE].text = ToText(VaultData_ser(crash[1].was.vault))
         /\ \A i \in Procs :
              (Returned(i, "read_app_data") /\ NoFsFailure(i)) =>
                 /\ IsOk(result[i])
                 /\ SameButCipher(result[i].val.auth, crash[1].auth)
                 /\ result[i].val.vault = crash[1].was.vault

\* The Session and the VaultData read back were never saved together.
C17_Witness ==
    /\ crash # None
    /\ Returned(1, "read_app_data")
    /\ IsOk(result[1])
    /\ ~SameButCipher(crash[1].auth, crash[1].was.auth)
    /\ crash[1].vault # crash[1].was.vault
    /\ result[1].val.vault = crash[1].was.vault
    /\ SameButCipher(result[1].val.auth, crash[1].auth)

\* C18 (as stated): when save_app_data returns Ok, auth.json and vault.json
\* hold the whole documents of the Session and the VaultData of that call;
\* and when a file-system call of save_app_data failed (the creation of a
\* file, a write, the flush of the BufWriter when it is dropped),
\* save_app_data returns VaultDataWriteFailed.
C18_NoSwallowedWriteError ==
    \A i \in Procs :
        Returned(i, "save_app_data") =>
            /\ IsOk(result[i]) =>
                 \A f \in FileNames : files[f].text = ToText(DocOf(i, f))
            /\ ~NoFsFailure(i) => result[i].kind = "VaultDataWriteFailed"

\* C19 (as stated): a call of sync, whatever the token_type and
\* access_token of its Session, returns: with a VaultData, or with
\* RequestFailed carrying the sync endpoint; it does not abort the process.
C19_SyncNeverPanics ==
    \A i \in Procs :
        (op[i] = "sync" /\ pc[i] \in {"returned", "panicked"}) =>
            /\ pc[i] = "returned"
            /\ result[i] # Panicked
            /\ \/ IsOk(result[i])
               \/ result[i].kind = "RequestFailed" /\ result[i].endpoint = SyncUrl

\* Process i's call of sync has ended, by a return or by an abort.
SyncDone(i) == op[i] = "sync" /\ pc[i] \in {"returned", "panicked"}

\* What C20 says of the request of a sync and of what the sync returns: the
\* request is a GET to the sync endpoint with the header of the Session; an
\* Ok carries the VaultData of the response body, whatever vault the client
\* held or the cache holds; an answer that is no success, or whose body
\* lacks a required field or does not parse, gives RequestFailed and no
\* VaultData.
SyncOutcome(i) ==
    /\ \A k \in 1..Len(sent[i]) :
         /\ sent[i][k].req.method = "GET"
         /\ sent[i][k].req.url = SyncUrl
         /\ sent[i][k].req.headers.authorization =
               session[i][1].token_type \o " " \o session[i][1].access_token
         /\ SyncUnusable(sent[i][k]) =>
               /\ result[i].kind = "RequestFailed"
               /\ "val" \notin DOMAIN result[i]
         /\ ~SyncUnusable(sent[i][k]) =>
               /\ IsOk(result[i])
               /\ result[i].val = VaultData_de(sent[i][k].resp.json[1])[1]
    /\ \A forms \in VaultForms : \A n \in {AliasNames, FieldNames} :
         SyncGot(i, n, forms) => result[i].val = ExpectedVault(forms)
    /\ IsOk(result[i]) => Len(sent[i]) = 1

\* A step that is a call of sync by process i leaves its Session as it is.
SyncKeepsSession ==
    \A i \in Procs :
        (pc[i] = "idle" /\ op'[i] = "sync" /\ pc'[i] \in {"returned", "panicked"}) =>
            session' = session

\* C20 (as stated): every call of sync sends exactly one request, the GET
\* with the Session's header, leaves the Session unchanged and returns the
\* VaultData of the response body alone, or an error and no VaultData.
C20_ExactlyOneGet ==
    /\ [](\A i \in Procs : SyncDone(i) => (Len(sent[i]) = 1 /\ SyncOutcome(i)))
    /\ [][SyncKeepsSession]_vars

\* C20 (amended): a call of sync sends at most one request, the GET with the
\* Session's header: one in every call that gets as far as the exchange,
\* none in a call that returns RequestFailed because the HTTP client could
\* not be built or that aborts on the header value; it leaves the Session
\* unchanged and returns the VaultData of the response body alone, or an
\* error and no VaultData.
C20_AtMostOneGet ==
    /\ [](\A i \in Procs :
            SyncDone(i) =>
                /\ Len(sent[i]) <= 1
                /\ Len(sent[i]) = 0 <=>
                      result[i] \in {Panicked, RequestFailed(SyncUrl, "build")}
                /\ SyncOutcome(i))
    /\ [][SyncKeepsSession]_vars

\* A sync that returns a vault without entries to a client that holds, and
\* has cached, a vault with one.
C20_Witness ==
    /\ Returned(1, "sync")
    /\ IsOk(result[1])
    /\ Len(result[1].val.ciphers) = 0
    /\ vault[1] # None
    /\ Len(vault[1][1].ciphers) = 1
    /\ Parsable(VAULT_FILE)
    /\ Len(FromText(files[VAULT_FILE].text)[1].ciphers) = 1

====
